---- MODULE Spec2Model ----
(***************************************************************************)
(* earthquake-intel: the entrypoints of src/src/index.ts as one request    *)
(* state machine.  A request is validated against its input schema, its    *)
(* upstream fetches are issued, the fetches respond in any order, and the  *)
(* handler either returns an output or fails.                              *)
(*                                                                         *)
(* Units.  Magnitudes (and minMagnitude) are integers in tenths: M4.5 is   *)
(* 45.  Latitudes and longitudes are integers in hundredths of a degree.   *)
(* Distances and radii are integers in metres: radiusKm = 5.6 is 5600.     *)
(* JSON null is the value Null.                                            *)
(***************************************************************************)
EXTENDS Integers, Sequences, FiniteSets, TLC

\* ------------------------------------------------------------------ bounds
\* the longest feed of each specification
MaxFeedLen == 3
MaxNearbyLen == 3
MaxStatsLen == 3
MaxRankLen == 5
MaxReportLen == 2
MaxSmallLen == 1
MaxRegionLen == 2
MaxAreaLen == 3
MaxOrderLen == 2

\* -------------------------------------------------------- JavaScript values
Null == -100000

\* an input field the caller left out (the string "undefined" in an enum)
Undefined == -100001

\* ToNumber(null) is +0: what >=, - and Math.max see for a null operand
ToNumber(v) == IF v = Null THEN 0 ELSE v

\* all sequences over S of length 0..n
SeqsUpTo(S, n) == UNION {[1..k -> S] : k \in 0..n}

\* Array.prototype.slice(start, end) with 0-based start and end, negative
\* values counted from the end
SliceIndex(k, len) == IF k < 0 THEN (IF len + k < 0 THEN 0 ELSE len + k)
                      ELSE (IF k > len THEN len ELSE k)

slice(s, start, end) ==
  LET from == SliceIndex(start, Len(s))
      to   == SliceIndex(end, Len(s))
  IN  IF to <= from THEN <<>> ELSE SubSeq(s, from + 1, to)

\* Array.prototype.filter
filter(s, keep(_)) == SelectSeq(s, keep)

\* Array.prototype.map
map(s, f(_)) == [i \in DOMAIN s |-> f(s[i])]

\* Array.prototype.reduce((a, b) => a + b, 0) over numbers
RECURSIVE SumSeq(_)
SumSeq(s) == IF s = <<>> THEN 0 ELSE ToNumber(Head(s)) + SumSeq(Tail(s))

\* Math.max(...values) of a non-empty list
MathMax(s) ==
  LET nums == {ToNumber(s[i]) : i \in DOMAIN s}
  IN  CHOOSE m \in nums : \A n \in nums : n <= m

\* the comparators handed to Array.prototype.sort, by call site; - sees
\* ToNumber of its operands
Compare(cmp, a, b) ==
  CASE cmp = "top.magnitude"    -> ToNumber(b.mag) - ToNumber(a.mag)
    [] cmp = "top.significance" -> ToNumber(b.sig) - ToNumber(a.sig)
    [] cmp = "compare.ranked"   -> b.stats.totalQuakes - a.stats.totalQuakes
    [] cmp = "nearby.distance"  -> a.distanceKm - b.distanceKm
    [] cmp = "report.places"    -> b[2] - a[2]

\* an insertion that puts an element before the elements it compares equal to
RECURSIVE InsertUnstable(_, _, _)
InsertUnstable(sorted, x, cmp) ==
  IF sorted = <<>> THEN <<x>>
  ELSE IF Compare(cmp, Head(sorted), x) < 0
       THEN <<Head(sorted)>> \o InsertUnstable(Tail(sorted), x, cmp)
       ELSE <<x>> \o sorted

\* Array.prototype.sort(cmp) is a stable sort: an element is placed after
\* every element already placed that does not compare greater than it
RECURSIVE InsertStable(_, _, _)
InsertStable(sorted, x, cmp) ==
  IF sorted = <<>> THEN <<x>>
  ELSE IF Compare(cmp, Head(sorted), x) <= 0
       THEN <<Head(sorted)>> \o InsertStable(Tail(sorted), x, cmp)
       ELSE <<x>> \o sorted

RECURSIVE sort(_, _)
sort(s, cmp) ==
  IF s = <<>> THEN <<>>
  ELSE InsertStable(sort(SubSeq(s, 1, Len(s) - 1), cmp), s[Len(s)], cmp)

\* ------------------------------------------------------- upstream records
\* a raw feature: properties mag, sig, place and geometry.coordinates =
\* [lon, lat, depth]
Feature(id, mag, sig, place, lon, lat) ==
  [id |-> id, mag |-> mag, sig |-> sig, place |-> place,
   coordinates |-> <<lon, lat, 0>>]

\* a response body: metadata.count and features
Body(count, features) == [count |-> count, features |-> features]

formatQuake(feature) ==
  [id |-> feature.id,
   magnitude |-> feature.mag,
   place |-> feature.place,
   longitude |-> feature.coordinates[1],
   latitude |-> feature.coordinates[2],
   depth |-> feature.coordinates[3],
   significance |-> feature.sig]

\* Array.prototype.reduce((max, f) => f.properties.mag > max.properties.mag
\* ? f : max, features[0]): the first feature of the largest magnitude
RECURSIVE MaxFeature(_, _)
MaxFeature(features, max) ==
  IF features = <<>> THEN max
  ELSE MaxFeature(Tail(features),
                  IF ToNumber(Head(features).mag) > ToNumber(max.mag)
                  THEN Head(features) ELSE max)

NullValue == [null |-> TRUE]

\* Number(x.toFixed(2)) of the mean sum/n of magnitudes given in tenths:
\* the result in hundredths, the nearest one, the larger of two equally near
MeanToFixed2(sum, n) == (2 * 10 * sum + n) \div (2 * n)

\* ------------------------------------------- first entrypoint set: handlers
overviewHandler(bodies) ==
  LET significant == bodies[1]
      recent      == bodies[2]
  IN  [significantQuakesThisWeek |-> significant.count,
       magnitude45PlusToday |-> recent.count,
       largestThisWeek |->
         IF Len(significant.features) > 0
         THEN formatQuake(MaxFeature(significant.features, significant.features[1]))
         ELSE NullValue,
       recentSignificant |-> map(slice(significant.features, 0, 3), formatQuake)]

lookupHandler(in, bodies) ==
  LET data == bodies[1]
  IN  [id |-> data.id,
       magnitude |-> data.mag,
       place |-> data.place,
       longitude |-> data.coordinates[1],
       latitude |-> data.coordinates[2],
       depthKm |-> data.coordinates[3],
       significance |-> data.sig]

searchHandler(in, bodies) ==
  LET data == bodies[1]
  IN  [query |-> in,
       totalFound |-> data.count,
       earthquakes |-> map(data.features, formatQuake)]

topFilter(features, minMagnitude) ==
  LET keep(f) == ToNumber(f.mag) >= minMagnitude
  IN  filter(features, keep)

topSort(filtered, rankBy) ==
  IF rankBy = "magnitude" THEN sort(filtered, "top.magnitude")
  ELSE sort(filtered, "top.significance")

topHandler(in, bodies) ==
  LET data      == bodies[1]
      filtered  == topSort(topFilter(data.features, in.minMagnitude), in.rankBy)
      topQuakes == slice(filtered, 0, in.limit)
  IN  [period |-> in.period,
       rankBy |-> in.rankBy,
       minMagnitude |-> in.minMagnitude,
       totalFiltered |-> Len(filtered),
       topEarthquakes |->
         [i \in DOMAIN topQuakes |-> [rank |-> i] @@ formatQuake(topQuakes[i])]]

\* an average without the guard for the empty list: 0 / 0 is not a number,
\* written Null here
averageUnguarded(magnitudes) ==
  IF Len(magnitudes) > 0
  THEN MeanToFixed2(SumSeq(magnitudes), Len(magnitudes))
  ELSE Null

\* magnitudes.length > 0 ? sum / length : 0, then Number(avg.toFixed(2));
\* the result is in hundredths
averageMagnitude(magnitudes) ==
  IF Len(magnitudes) > 0
  THEN MeanToFixed2(SumSeq(magnitudes), Len(magnitudes))
  ELSE 0

\* magnitudes.length > 0 ? Math.max(...magnitudes) : 0, in tenths
maxMagnitude(magnitudes) ==
  IF Len(magnitudes) > 0 THEN MathMax(magnitudes) ELSE 0

countAtLeast(magnitudes, m) ==
  Cardinality({i \in DOMAIN magnitudes : ToNumber(magnitudes[i]) >= m})

\* the body of the async callback of regions.map, after its fetch
compareRegion(region, data) ==
  LET mag(f)     == f.mag
      magnitudes == map(data.features, mag)
  IN  [region |-> region.name,
       latitude |-> region.latitude,
       longitude |-> region.longitude,
       radiusKm |-> region.radiusKm,
       stats |-> [totalQuakes |-> data.count,
                  averageMagnitude |-> averageMagnitude(magnitudes),
                  maxMagnitude |-> maxMagnitude(magnitudes),
                  quakesAbove4 |-> countAtLeast(magnitudes, 40),
                  quakesAbove5 |-> countAtLeast(magnitudes, 50)],
       topQuake |->
         IF Len(data.features) > 0
         THEN formatQuake(MaxFeature(data.features, data.features[1]))
         ELSE NullValue]

rankAscending(results) ==
  LET desc == sort(results, "compare.ranked")
  IN  [i \in DOMAIN desc |-> desc[Len(desc) + 1 - i]]

rankRegions(results) == sort(results, "compare.ranked")

compareHandler(in, bodies) ==
  LET results == [i \in DOMAIN in.regions |-> compareRegion(in.regions[i], bodies[i])]
      ranked  == rankRegions(results)
      entry(r) == [region |-> r.region, count |-> r.stats.totalQuakes]
  IN  [periodDays |-> 7,
       minMagnitude |-> in.minMagnitude,
       comparison |-> results,
       ranking |-> [mostActive |-> ranked[1].region,
                    leastActive |-> ranked[Len(ranked)].region,
                    byTotalQuakes |-> map(ranked, entry)]]

\* a score whose 250 km term fires already at a count of 10
riskScoreOffByOne(count50, count250, count500, maxNearby) ==
  (IF count50 > 0 THEN count50 * 2 ELSE 0)
  + (IF count250 >= 10 THEN 10 ELSE 0)
  + (IF maxNearby >= 40 THEN 15 ELSE 0)
  + (IF maxNearby >= 50 THEN 25 ELSE 0)
  + (IF count500 > 5 THEN 5 ELSE 0)

\* let riskScore = 0 and the five if (...) riskScore += ... statements
riskScore(count50, count250, count500, maxNearby) ==
  LET s0 == 0
      s1 == IF count50 > 0 THEN s0 + count50 * 2 ELSE s0
      s2 == IF count250 > 10 THEN s1 + 10 ELSE s1
      s3 == IF maxNearby >= 40 THEN s2 + 15 ELSE s2
      s4 == IF maxNearby >= 50 THEN s3 + 25 ELSE s3
      s5 == IF count500 > 5 THEN s4 + 5 ELSE s4
  IN  s5

\* levels whose "elevated" band starts above 25 instead of at 25
riskLevelStrict(score) ==
  IF score >= 50 THEN "high"
  ELSE IF score > 25 THEN "elevated"
  ELSE IF score >= 10 THEN "moderate"
  ELSE "low"

\* let riskLevel = 'low' and the if / else if chain on riskScore
riskLevel(score) ==
  IF score >= 50 THEN "high"
  ELSE IF score >= 25 THEN "elevated"
  ELSE IF score >= 10 THEN "moderate"
  ELSE "low"

reportHandler(in, bodies) ==
  LET nearby50km  == bodies[1]
      nearby250km == bodies[2]
      nearby500km == bodies[3]
      significant == bodies[4]
      mag(f)      == f.mag
      nearbyMags  == map(nearby50km.features, mag)
      maxNearby   == IF Len(nearbyMags) > 0 THEN MathMax(nearbyMags) ELSE 0
      avgNearby   == averageMagnitude(nearbyMags)
      score       == riskScore(nearby50km.count, nearby250km.count,
                               nearby500km.count, maxNearby)
  IN  [location |-> in,
       level |-> riskLevel(score),
       score |-> score,
       within50km |-> [count |-> nearby50km.count,
                       maxMagnitude |-> maxNearby,
                       avgMagnitude |-> avgNearby,
                       quakes |-> map(slice(nearby50km.features, 0, 5), formatQuake)],
       within250km |-> [count |-> nearby250km.count,
                        quakes |-> map(slice(nearby250km.features, 0, 5), formatQuake)],
       within500km |-> [count |-> nearby500km.count,
                        quakes |-> map(slice(nearby500km.features, 0, 5), formatQuake)],
       significantQuakesThisWeek |-> significant.count,
       nearestSignificant |->
         IF Len(significant.features) > 0
         THEN formatQuake(significant.features[1])
         ELSE NullValue]

\* ------------------------------------------ second entrypoint set: helpers
R == 6371

\* metres per hundredth of a degree of arc: R * 1000 * (PI / 180) / 100,
\* to the nearest metre
MetresPerCentiDegree == (R * 314159 + 900000) \div 1800000

\* floor of the square root
RECURSIVE SqrtBetween(_, _, _)
SqrtBetween(n, lo, hi) ==
  IF lo >= hi THEN lo
  ELSE LET mid == (lo + hi + 1) \div 2
       IN  IF mid * mid <= n THEN SqrtBetween(n, mid, hi)
           ELSE SqrtBetween(n, lo, mid - 1)

Sqrt(n) == SqrtBetween(n, 0, 46340)

\* The Haversine distance in metres.  The points of the model lie within a
\* tenth of a degree of each other and of the equator, where sin x = x,
\* cos x = 1 and atan2(sqrt(a), sqrt(1 - a)) = sqrt(a) hold to a relative
\* error below 2 * 10^-6, less than a metre at these distances: there
\* a = (dLat^2 + dLon^2) / 4 and R * c = R * sqrt(dLat^2 + dLon^2), the
\* angles in radians.
haversineDistance(lat1, lon1, lat2, lon2) ==
  LET dLat == lat2 - lat1
      dLon == lon2 - lon1
      a4   == dLat * dLat + dLon * dLon
  IN  Sqrt(MetresPerCentiDegree * MetresPerCentiDegree * a4)

\* Math.round of a distance in metres, in whole kilometres
MathRoundKm(metres) == (metres + 500) \div 1000

parseQuake(f) ==
  [id |-> f.id,
   magnitude |-> f.mag,
   place |-> f.place,
   depth |-> f.coordinates[3],
   latitude |-> f.coordinates[2],
   longitude |-> f.coordinates[1],
   significance |-> f.sig]

parseQuakes(features) == map(features, parseQuake)

\* ------------------------------------------ second entrypoint set: handlers
globalOverviewHandler(bodies) ==
  LET hourData == bodies[1]
      dayData  == bodies[2]
      weekData == bodies[3]
  IN  [pastHour |-> hourData.count,
       significant24h |-> dayData.count,
       significantWeek |-> weekData.count,
       latestSignificant |->
         IF Len(weekData.features) > 0
         THEN [magnitude |-> weekData.features[1].mag,
               place |-> weekData.features[1].place]
         ELSE NullValue]

\* recent, significant and magnitude: the feed cut to limit
feedHandler(in, bodies) ==
  LET data   == bodies[1]
      quakes == parseQuakes(slice(data.features, 0, in.limit))
  IN  [totalCount |-> data.count,
       returned |-> Len(quakes),
       earthquakes |-> quakes]

\* an endpoint selection with > in the place of >=
nearbyEndpointStrict(minMagnitude) ==
  IF minMagnitude > 45 THEN "4.5_day.geojson"
  ELSE IF minMagnitude > 25 THEN "2.5_day.geojson"
  ELSE "1.0_day.geojson"

\* minMagnitude >= 4.5 ? '4.5_day' : minMagnitude >= 2.5 ? '2.5_day' : '1.0_day'
nearbyEndpoint(minMagnitude) ==
  IF minMagnitude >= 45 THEN "4.5_day.geojson"
  ELSE IF minMagnitude >= 25 THEN "2.5_day.geojson"
  ELSE "1.0_day.geojson"

\* .filter(f => haversineDistance(latitude, longitude, qLat, qLon) <= radiusKm)
nearbyFilter(features, latitude, longitude, radiusKm) ==
  LET near(f) == haversineDistance(latitude, longitude,
                     f.coordinates[2], f.coordinates[1]) <= radiusKm
  IN  filter(features, near)

\* .map(f => ({...parseQuakes([f])[0], distanceKm: Math.round(...)}))
nearbyMap(features, latitude, longitude) ==
  LET withDistance(f) ==
        parseQuakes(<<f>>)[1] @@
        [distanceKm |-> MathRoundKm(haversineDistance(latitude, longitude,
                            f.coordinates[2], f.coordinates[1]))]
  IN  map(features, withDistance)

\* the records left in the order of the feed
nearbyUnsorted(quakes) == quakes

\* .sort((a, b) => a.distanceKm - b.distanceKm)
nearbySort(quakes) == sort(quakes, "nearby.distance")

nearbyHandler(in, bodies) ==
  LET data         == bodies[1]
      nearbyQuakes ==
        nearbySort(nearbyMap(
          nearbyFilter(data.features, in.latitude, in.longitude, in.radiusKm),
          in.latitude, in.longitude))
  IN  [searchCenter |-> [latitude |-> in.latitude, longitude |-> in.longitude],
       radiusKm |-> in.radiusKm,
       minMagnitude |-> in.minMagnitude,
       found |-> Len(nearbyQuakes),
       earthquakes |-> nearbyQuakes]

\* regionBounds, in hundredths of a degree
regionBounds(region) ==
  CASE region = "global"   -> [latMin |-> -9000, latMax |-> 9000, lonMin |-> -18000, lonMax |-> 18000]
    [] region = "pacific"  -> [latMin |-> -6000, latMax |-> 6000, lonMin |-> 10000, lonMax |-> -10000]
    [] region = "americas" -> [latMin |-> -6000, latMax |-> 7000, lonMin |-> -17000, lonMax |-> -3000]
    [] region = "asia"     -> [latMin |-> -1000, latMax |-> 6000, lonMin |-> 6000, lonMax |-> 15000]
    [] region = "europe"   -> [latMin |-> 3500, latMax |-> 7200, lonMin |-> -2500, lonMax |-> 4500]

\* a filter that applies the ordinary conjunction to every named region
filterConjunction(features, region) ==
  LET bounds == regionBounds(region)
      inBox(f) ==
        LET lat == f.coordinates[2]
            lon == f.coordinates[1]
        IN  lat >= bounds.latMin /\ lat <= bounds.latMax
            /\ lon >= bounds.lonMin /\ lon <= bounds.lonMax
  IN  IF region = "global" THEN features ELSE filter(features, inBox)

filterByRegion(features, region) ==
  LET bounds == regionBounds(region)
      inBox(f) ==
        LET lat == f.coordinates[2]
            lon == f.coordinates[1]
        IN  IF region = "pacific"
            THEN lat >= bounds.latMin /\ lat <= bounds.latMax
                 /\ (lon >= bounds.lonMin \/ lon <= bounds.lonMax)
            ELSE lat >= bounds.latMin /\ lat <= bounds.latMax
                 /\ lon >= bounds.lonMin /\ lon <= bounds.lonMax
  IN  IF region = "global" THEN features ELSE filter(features, inBox)

\* A place string is the sequence of its comma-separated components, each
\* trimmed; <<>> is a null place and <<"">> the empty string.
\* p.split(',').pop()?.trim() || p
placeArea(p) == IF p[Len(p)] = "" THEN p ELSE <<p[Len(p)]>>

\* the number a property key stands for when it is a canonical array index
\* (a digit-only string without a leading zero), else -1
arrayIndex(key) ==
  IF Len(key) # 1 THEN -1
  ELSE CASE key[1] = "7"  -> 7
         [] key[1] = "12" -> 12
         [] OTHER         -> -1

\* placeCount[region] = (placeCount[region] || 0) + 1 over the places, as
\* the pairs <<key, count>> in the order the keys were first set
RECURSIVE countPlaces(_, _)
countPlaces(places, counted) ==
  IF places = <<>> THEN counted
  ELSE LET key  == placeArea(Head(places))
           seen == {i \in DOMAIN counted : counted[i][1] = key}
       IN  countPlaces(Tail(places),
             IF seen = {}
             THEN Append(counted, <<key, 1>>)
             ELSE [i \in DOMAIN counted |->
                    IF i \in seen THEN <<key, counted[i][2] + 1>> ELSE counted[i]])

\* the entries of an object in insertion order alone
insertionOrderEntries(counted) == counted

\* Object.entries: the array-index keys in ascending numeric order, then the
\* other keys in the order they were first set
RECURSIVE indexEntries(_, _)
indexEntries(counted, above) ==
  LET idx == {arrayIndex(counted[i][1]) : i \in DOMAIN counted} \ (-1..above)
  IN  IF idx = {} THEN <<>>
      ELSE LET least == CHOOSE n \in idx : \A m \in idx : n <= m
               at    == CHOOSE i \in DOMAIN counted : arrayIndex(counted[i][1]) = least
           IN  <<counted[at]>> \o indexEntries(counted, least)

ObjectEntries(counted) ==
  LET named(e) == arrayIndex(e[1]) = -1
  IN  indexEntries(counted, -1) \o filter(counted, named)

mostActiveAreas(features) ==
  LET place(f)     == f.place
      truthy(p)    == p # <<>> /\ p # <<"">>
      places       == filter(map(features, place), truthy)
      placeCount   == countPlaces(places, <<>>)
      entry(e)     == [area |-> e[1], count |-> e[2]]
  IN  map(slice(sort(ObjectEntries(placeCount), "report.places"), 0, 5), entry)

regionalReportHandler(in, bodies) ==
  LET hourAll  == bodies[1]
      day45    == bodies[2]
      weekSig  == bodies[3]
      monthAll == bodies[4]
      regionalHour  == filterByRegion(hourAll.features, in.region)
      regional45    == filterByRegion(day45.features, in.region)
      regionalSig   == filterByRegion(weekSig.features, in.region)
      regionalMonth == filterByRegion(monthAll.features, in.region)
      mag(f)        == f.mag
      notNull(m)    == m # Null
      magnitudes    == filter(map(regionalMonth, mag), notNull)
  IN  [region |-> in.region,
       pastHour |-> Len(regionalHour),
       magnitude45_24h |-> Len(regional45),
       significantWeek |-> Len(regionalSig),
       totalMonth |-> Len(regionalMonth),
       averageMagnitude |->
         IF Len(magnitudes) > 0
         THEN MeanToFixed2(SumSeq(magnitudes), Len(magnitudes)) ELSE Null,
       maxMagnitude |-> IF Len(magnitudes) > 0 THEN MathMax(magnitudes) ELSE Null,
       mostActiveAreas |-> mostActiveAreas(regionalMonth),
       recentSignificant |-> parseQuakes(slice(regionalSig, 0, 5)),
       latestLarge |-> parseQuakes(slice(regional45, 0, 5)),
       activity |-> IF Len(regionalHour) > 10 THEN "HIGH"
                    ELSE IF Len(regionalHour) > 5 THEN "MODERATE" ELSE "LOW",
       trend |-> IF Len(regionalMonth) > 1000
                 THEN "Above average seismic activity" ELSE "Normal activity levels"]

\* ------------------------------------------------------------ input schemas
\* z.number().min(lo).max(hi)
InRange(v, lo, hi) == v # Undefined /\ v # Null /\ lo <= v /\ v <= hi

\* .optional(): the field may be left out
Optional(v, lo, hi) == v = Undefined \/ InRange(v, lo, hi)

\* .default(d)
Default(v, d) == IF v = Undefined THEN d ELSE v

DefaultEnum(v, d) == IF v = "undefined" THEN d ELSE v

validRegion(r) ==
  /\ InRange(r.latitude, -9000, 9000)
  /\ InRange(r.longitude, -18000, 18000)
  /\ Optional(r.radiusKm, 10000, 5000000)

\* a search schema without the bounds of radiusKm
validSearchNoRadius(in) ==
  /\ InRange(in.latitude, -9000, 9000)
  /\ InRange(in.longitude, -18000, 18000)
  /\ Optional(in.minMagnitude, 0, 100)
  /\ Optional(in.maxMagnitude, 0, 100)
  /\ Optional(in.daysBack, 1, 30)
  /\ Optional(in.limit, 1, 100)

validSearch(in) ==
  /\ InRange(in.latitude, -9000, 9000)
  /\ InRange(in.longitude, -18000, 18000)
  /\ Optional(in.radiusKm, 1000, 20000000)
  /\ Optional(in.minMagnitude, 0, 100)
  /\ Optional(in.maxMagnitude, 0, 100)
  /\ Optional(in.daysBack, 1, 30)
  /\ Optional(in.limit, 1, 100)

validTop(in) ==
  /\ in.period \in {"day", "week", "month", "undefined"}
  /\ in.rankBy \in {"magnitude", "significance", "undefined"}
  /\ Optional(in.minMagnitude, 0, 100)
  /\ Optional(in.limit, 1, 50)

validCompare(in) ==
  /\ \A i \in DOMAIN in.regions : validRegion(in.regions[i])
  /\ Len(in.regions) >= 2
  /\ Len(in.regions) <= 5
  /\ Optional(in.minMagnitude, 0, 100)

validReport(in) ==
  /\ InRange(in.latitude, -9000, 9000)
  /\ InRange(in.longitude, -18000, 18000)

validNearby(in) ==
  /\ InRange(in.latitude, -9000, 9000)
  /\ InRange(in.longitude, -18000, 18000)

\* the input check of each entrypoint, by its key
Valid(key, in) ==
  CASE key = "search"  -> validSearch(in)
    [] key = "top"     -> validTop(in)
    [] key = "compare" -> validCompare(in)
    [] key = "report"  -> validReport(in)
    [] key = "nearby"  -> validNearby(in)
    [] key = "magnitude" -> in.minMagnitude \in {"1.0", "2.5", "4.5"}
                            /\ in.timeframe \in {"hour", "day", "week", "month", "undefined"}
    [] key = "regionalReport" ->
         in.region \in {"global", "pacific", "americas", "asia", "europe", "undefined"}
    [] OTHER -> TRUE

\* the parsed input: the defaults of the schema filled in
Parsed(key, in) ==
  CASE key = "search" ->
         [in EXCEPT !.radiusKm = Default(@, 500000), !.minMagnitude = Default(@, 25),
                    !.daysBack = Default(@, 7), !.limit = Default(@, 20)]
    [] key = "top" ->
         [in EXCEPT !.period = DefaultEnum(@, "week"), !.rankBy = DefaultEnum(@, "magnitude"),
                    !.minMagnitude = Default(@, 45), !.limit = Default(@, 10)]
    [] key = "compare" ->
         [in EXCEPT !.regions = [i \in DOMAIN @ |->
                                  [@[i] EXCEPT !.radiusKm = Default(@, 500000)]],
                    !.minMagnitude = Default(@, 25)]
    [] key = "recent" -> [in EXCEPT !.limit = Default(@, 20)]
    [] key = "significant" -> [in EXCEPT !.limit = Default(@, 10)]
    [] key = "nearby" ->
         [in EXCEPT !.radiusKm = Default(@, 500000), !.minMagnitude = Default(@, 25)]
    [] key = "magnitude" ->
         [in EXCEPT !.timeframe = DefaultEnum(@, "day"), !.limit = Default(@, 25)]
    [] key = "regionalReport" -> [in EXCEPT !.region = DefaultEnum(@, "global")]
    [] OTHER -> in

\* ------------------------------------------------------------------ fetches
FeedUrl(name) == [feed |-> name]

QueryUrl(latitude, longitude, maxradiuskm, minmagnitude, days) ==
  [query |-> "fdsnws", latitude |-> latitude, longitude |-> longitude,
   maxradiuskm |-> maxradiuskm, minmagnitude |-> minmagnitude, days |-> days]

\* feedMap[period]
topFeed(period) ==
  CASE period = "day"   -> "all_day.geojson"
    [] period = "week"  -> "all_week.geojson"
    [] period = "month" -> "all_month.geojson"

\* the URLs a handler fetches, in the order it calls fetchJSON / fetchUSGS
Urls(key, in) ==
  CASE key = "overview" ->
         <<FeedUrl("significant_week.geojson"), FeedUrl("4.5_day.geojson")>>
    [] key = "lookup" -> <<[query |-> "eventid", eventid |-> in.eventId]>>
    [] key = "search" ->
         <<QueryUrl(in.latitude, in.longitude, in.radiusKm, in.minMagnitude, in.daysBack)
           @@ [limit |-> in.limit, maxmagnitude |-> in.maxMagnitude]>>
    [] key = "top" -> <<FeedUrl(topFeed(in.period))>>
    [] key = "compare" ->
         [i \in DOMAIN in.regions |->
           QueryUrl(in.regions[i].latitude, in.regions[i].longitude,
                    in.regions[i].radiusKm, in.minMagnitude, 7)]
    [] key = "report" ->
         <<QueryUrl(in.latitude, in.longitude, 50000, 10, 30),
           QueryUrl(in.latitude, in.longitude, 250000, 25, 30),
           QueryUrl(in.latitude, in.longitude, 500000, 40, 7),
           FeedUrl("significant_week.geojson")>>
    [] key = "globalOverview" ->
         <<FeedUrl("all_hour.geojson"), FeedUrl("4.5_day.geojson"),
           FeedUrl("significant_week.geojson")>>
    [] key = "recent" -> <<FeedUrl("all_hour.geojson")>>
    [] key = "significant" -> <<FeedUrl("significant_week.geojson")>>
    [] key = "nearby" -> <<FeedUrl(nearbyEndpoint(in.minMagnitude))>>
    [] key = "magnitude" -> <<[tier |-> in.minMagnitude, timeframe |-> in.timeframe]>>
    [] key = "regionalReport" ->
         <<FeedUrl("all_hour.geojson"), FeedUrl("4.5_day.geojson"),
           FeedUrl("significant_week.geojson"), FeedUrl("all_month.geojson")>>

\* what the handler returns once every fetch it awaits has resolved
Handler(key, in, bodies) ==
  CASE key = "overview" -> overviewHandler(bodies)
    [] key = "lookup" -> lookupHandler(in, bodies)
    [] key = "search" -> searchHandler(in, bodies)
    [] key = "top" -> topHandler(in, bodies)
    [] key = "compare" -> compareHandler(in, bodies)
    [] key = "report" -> reportHandler(in, bodies)
    [] key = "globalOverview" -> globalOverviewHandler(bodies)
    [] key \in {"recent", "significant", "magnitude"} -> feedHandler(in, bodies)
    [] key = "nearby" -> nearbyHandler(in, bodies)
    [] key = "regionalReport" -> regionalReportHandler(in, bodies)

NoBody == [none |-> TRUE]

\* a fetch that hands an empty feed to the handler when the response is not ok
fetchSwallow(response) ==
  IF ~response.ok THEN [threw |-> FALSE, value |-> Body(0, <<>>)]
  ELSE [threw |-> FALSE, value |-> response.json]

\* fetchJSON and fetchUSGS after the response arrived:
\* if (!response.ok) throw new Error(...); return response.json()
fetchJSON(response) ==
  IF ~response.ok THEN [threw |-> TRUE, value |-> NoBody]
  ELSE [threw |-> FALSE, value |-> response.json]

\* a join that settles only once no promise is pending
promiseAllLate(states) ==
  IF \E i \in DOMAIN states : states[i] = "pending" THEN "pending"
  ELSE IF \E i \in DOMAIN states : states[i] = "rejected" THEN "rejected"
  ELSE "fulfilled"

\* a join that collects the values in the order the promises are fulfilled
resolveInArrivalOrder(vals, index, value) ==
  LET free == {k \in DOMAIN vals : vals[k] = NoBody}
  IN  [vals EXCEPT ![CHOOSE k \in free : \A l \in free : k <= l] = value]

\* Promise.all's resolve element function: the value of the promise at
\* index goes to that index of the values, whenever it is fulfilled
resolveElement(vals, index, value) == [vals EXCEPT ![index] = value]

\* Promise.all (and the await of a single fetch): rejected as soon as one
\* promise is rejected, fulfilled once all are, pending until then
promiseAll(states) ==
  IF \E i \in DOMAIN states : states[i] = "rejected" THEN "rejected"
  ELSE IF \A i \in DOMAIN states : states[i] = "fulfilled" THEN "fulfilled"
  ELSE "pending"

\* ------------------------------------------------------------ state machine
VARIABLES
  op,       \* the key of the entrypoint called, "none" before the call
  input,    \* its input, parsed once it passed the schema
  pc,       \* "idle", "awaiting" (the handler awaits its fetches), "done", "failed"
  fetches,  \* the fetches issued: url, state of the promise, HTTP status, body
  values,   \* the values of the fulfilled fetches, as Promise.all holds them
  output,   \* the output the handler returned
  error     \* "none", "ValidationError" or "UpstreamError"

vars == <<op, input, pc, fetches, values, output, error>>

NoOutput == [none |-> TRUE]

Init ==
  /\ op = "none"
  /\ input = [none |-> TRUE]
  /\ pc = "idle"
  /\ fetches = <<>>
  /\ values = <<>>
  /\ output = NoOutput
  /\ error = "none"

\* a handler that awaits its first fetch before it issues the next
RequestSequential(key, in) ==
  /\ pc = "idle"
  /\ op' = key
  /\ output' = output
  /\ IF ~Valid(key, in)
     THEN /\ input' = in
          /\ pc' = "failed"
          /\ error' = "ValidationError"
          /\ fetches' = fetches
          /\ values' = values
     ELSE /\ input' = Parsed(key, in)
          /\ pc' = "awaiting"
          /\ error' = error
          /\ fetches' = <<[url |-> Urls(key, Parsed(key, in))[1],
                           state |-> "pending", httpStatus |-> 0, body |-> NoBody]>>
          /\ values' = <<NoBody>>

\* A call of entrypoint key with input in.  An input the schema rejects fails
\* the call before the handler runs.  Otherwise the handler runs up to its
\* await: every fetch of the request has been issued by then.
Request(key, in) ==
  /\ pc = "idle"
  /\ op' = key
  /\ output' = output
  /\ IF ~Valid(key, in)
     THEN /\ input' = in
          /\ pc' = "failed"
          /\ error' = "ValidationError"
          /\ fetches' = fetches
          /\ values' = values
     ELSE /\ input' = Parsed(key, in)
          /\ pc' = "awaiting"
          /\ error' = error
          /\ fetches' = [i \in DOMAIN Urls(key, Parsed(key, in)) |->
                          [url |-> Urls(key, Parsed(key, in))[i],
                           state |-> "pending", httpStatus |-> 0, body |-> NoBody]]
          /\ values' = [i \in DOMAIN Urls(key, Parsed(key, in)) |-> NoBody]

\* a fetch that makes a second attempt when its first response is not ok
RespondRetry(i, response) ==
  /\ i \in DOMAIN fetches
  /\ fetches[i].state = "pending"
  /\ LET got  == fetchJSON(response)
         next == [fetches EXCEPT ![i] =
                   [@ EXCEPT !.state = IF got.threw THEN "rejected" ELSE "fulfilled",
                             !.httpStatus = response.status,
                             !.body = got.value]]
         state(f) == f.state
         all      == promiseAll(map(next, state))
     IN  IF got.threw /\ fetches[i].httpStatus = 0
         THEN /\ fetches' = [fetches EXCEPT ![i].httpStatus = response.status]
              /\ UNCHANGED <<values, pc, output, error>>
         ELSE /\ fetches' = next
              /\ values' = IF got.threw THEN values ELSE resolveElement(values, i, got.value)
              /\ IF pc # "awaiting" \/ all = "pending"
                 THEN UNCHANGED <<pc, output, error>>
                 ELSE IF all = "rejected"
                 THEN /\ pc' = "failed"
                      /\ error' = "UpstreamError"
                      /\ output' = output
                 ELSE /\ pc' = "done"
                      /\ output' = Handler(op, input, values')
                      /\ error' = error
  /\ UNCHANGED <<op, input>>

\* The response to pending fetch i arrives.  A fetch that throws rejects the
\* await (of the fetch, or of Promise.all) and the handler fails at once;
\* the other fetches are not cancelled and their responses are dropped.  A
\* fetch that returns hands its value to the join at its own index.  The
\* response that resolves the last fetch lets the handler run to its return
\* on the values of the join.
Respond(i, response) ==
  /\ i \in DOMAIN fetches
  /\ fetches[i].state = "pending"
  /\ LET got  == fetchJSON(response)
         next == [fetches EXCEPT ![i] =
                   [@ EXCEPT !.state = IF got.threw THEN "rejected" ELSE "fulfilled",
                             !.httpStatus = response.status,
                             !.body = got.value]]
         state(f) == f.state
         all      == promiseAll(map(next, state))
     IN  /\ fetches' = next
         /\ values' = IF got.threw THEN values ELSE resolveElement(values, i, got.value)
         /\ IF pc # "awaiting" \/ all = "pending"
            THEN UNCHANGED <<pc, output, error>>
            ELSE IF all = "rejected"
            THEN /\ pc' = "failed"
                 /\ error' = "UpstreamError"
                 /\ output' = output
            ELSE /\ pc' = "done"
                 /\ output' = Handler(op, input, values')
                 /\ error' = error
  /\ UNCHANGED <<op, input>>

\* the fetches whose response has not arrived
Pending == {i \in DOMAIN fetches : fetches[i].state = "pending"}

\* ------------------------------------------------- the upstream's responses
Kind(mag, sig, place, lon, lat) ==
  [mag |-> mag, sig |-> sig, place |-> place, lon |-> lon, lat |-> lat]

\* the features of a feed: the id of a feature is its position in the feed
Features(kinds) ==
  [i \in DOMAIN kinds |->
    Feature(i, kinds[i].mag, kinds[i].sig, kinds[i].place, kinds[i].lon, kinds[i].lat)]

\* the feeds of up to n features over the given kinds, metadata.count the
\* number of features
Feeds(kinds, n) == {Body(Len(ks), Features(ks)) : ks \in SeqsUpTo(kinds, n)}

OkResponse(body) == [ok |-> TRUE, status |-> 200, json |-> body]

ErrorResponse(status) == [ok |-> FALSE, status |-> status, json |-> NoBody]

Responses(bodies) == {OkResponse(b) : b \in bodies} \cup {ErrorResponse(503)}

\* ---------------------------------------------------------------------- top
TopKinds ==
  {Kind(Null, 10, <<"Alaska">>, 0, 0), Kind(0, 5, <<"Alaska">>, 0, 0),
   Kind(45, 10, <<"Alaska">>, 0, 0), Kind(45, Null, <<"Alaska">>, 0, 0),
   Kind(50, 5, <<"Alaska">>, 0, 0), Kind(50, 10, <<"Alaska">>, 0, 0),
   Kind(-5, 20, <<"Alaska">>, 0, 0)}

TopInputs ==
  [period : {"day", "undefined"}, rankBy : {"magnitude", "significance"},
   minMagnitude : {0, 45, 50}, limit : {0, 1, 2, Undefined}]

TopRequest == \E in \in TopInputs : Request("top", in)

TopRespond == \E i \in Pending :
                \E r \in Responses(Feeds(TopKinds, MaxFeedLen)) : Respond(i, r)

NextTop == TopRequest \/ TopRespond

SpecTop == Init /\ [][NextTop]_vars

\* ---------------------------------------------------------- location report
ReportKinds ==
  {Kind(m, 10, <<"Alaska">>, 0, 0) : m \in {Null, 39, 40, 50, 52}}

\* the bodies the four fetches of the report can get: the counts around the
\* thresholds of the score
ReportBodies(i) ==
  CASE i = 1 -> {Body(c, Features(ks)) :
                   c \in {0, 3}, ks \in SeqsUpTo(ReportKinds, MaxReportLen)}
    [] i = 2 -> {Body(c, <<>>) : c \in {0, 10, 11, 12}}
    [] i = 3 -> {Body(c, <<>>) : c \in {0, 5, 6, 8}}
    [] i = 4 -> Feeds({Kind(62, 600, <<"Japan">>, 14000, 3500)}, 1)

ReportInputs ==
  [latitude : {3400, 9100}, longitude : {-11800}, locationName : {"Los Angeles"}]

ReportRequest == \E in \in ReportInputs : Request("report", in)

ReportRespond == \E i \in Pending :
                   \E r \in Responses(ReportBodies(i)) : Respond(i, r)

NextReport == ReportRequest \/ ReportRespond

SpecReport == Init /\ [][NextReport]_vars

\* ------------------------------------------------------------------- nearby
\* epicentres around the centre (0, 0): at 0 m, 4448 m, 5560 m (twice),
\* 5670 m and 6672 m
NearbyKinds ==
  {Kind(30, 10, <<"Quito">>, p[1], p[2]) :
     p \in {<<0, 0>>, <<0, 4>>, <<0, 5>>, <<3, 4>>, <<5, 1>>, <<0, 6>>}}

NearbyInputs ==
  [latitude : {0}, longitude : {0}, radiusKm : {5000, 5600, 6000, Undefined},
   minMagnitude : {5, 10, 25, 26, 30, 45, 50, Undefined}]

NearbyRequest == \E in \in NearbyInputs : Request("nearby", in)

NearbyRespond == \E i \in Pending :
                   \E r \in Responses(Feeds(NearbyKinds, MaxNearbyLen)) : Respond(i, r)

NextNearby == NearbyRequest \/ NearbyRespond

SpecNearby == Init /\ [][NextNearby]_vars

\* ------------------------------------------------------------------ compare
RegionNames == <<"Tokyo", "Lima", "Rome", "Oslo", "Cairo", "Perth">>

Region(i) == [name |-> RegionNames[i], latitude |-> 100 * i, longitude |-> 200 * i,
              radiusKm |-> IF i = 1 THEN Undefined ELSE 300000]

\* one to six regions: two to five pass the schema
CompareInputs ==
  {[regions |-> [i \in 1..n |-> Region(i)], minMagnitude |-> 25] : n \in 1..6}

\* two regions of the same coordinates: the same query, once per region
TwinRegions ==
  [regions |-> <<Region(1), [Region(1) EXCEPT !.name = "Edo"]>>, minMagnitude |-> 25]

RankKinds == {Kind(30, 10, <<"Alaska">>, 0, 0)}

CompareRequest == \E in \in CompareInputs : Request("compare", in)

CompareRespond == \E i \in Pending :
                    \E r \in Responses(Feeds(RankKinds, MaxRankLen)) : Respond(i, r)

NextCompare == CompareRequest \/ CompareRespond

SpecCompare == Init /\ [][NextCompare]_vars

\* the statistics of a region: two regions, feeds of several magnitudes
StatsKinds == {Kind(m, 10, <<"Alaska">>, 0, 0) : m \in {10, 11, 51}}

StatsInputs == {[regions |-> [i \in 1..2 |-> Region(i)], minMagnitude |-> m] : m \in {10, Undefined}}

StatsRequest == \E in \in StatsInputs : Request("compare", in)

StatsRespond == \E i \in Pending :
                  \E r \in Responses(Feeds(StatsKinds, MaxStatsLen)) : Respond(i, r)

NextStats == StatsRequest \/ StatsRespond

SpecStats == Init /\ [][NextStats]_vars

\* ----------------------------------------------- every entrypoint, small feeds
Keys ==
  {"overview", "lookup", "search", "top", "compare", "report",
   "globalOverview", "recent", "significant", "nearby", "magnitude", "regionalReport"}

\* the entrypoints that await Promise.all of several fetches
FanOutKeys == {"overview", "compare", "report", "globalOverview", "regionalReport"}

SmallKinds == {Kind(30, 10, <<"Alaska">>, 3, 4)}

SmallBodies(key) ==
  IF key = "lookup"
  THEN {Feature("us6000s5ba", 30, 10, <<"Alaska">>, 3, 4)}
  ELSE Feeds(SmallKinds, MaxSmallLen)

Inputs(key) ==
  CASE key \in {"overview", "globalOverview"} -> {[empty |-> TRUE]}
    [] key = "lookup" -> {[eventId |-> "us6000s5ba"]}
    [] key = "search" ->
         [latitude : {0}, longitude : {0},
          radiusKm : {0, 1000, Undefined, 20000000, 25000000},
          minMagnitude : {Undefined}, maxMagnitude : {Undefined, 60},
          daysBack : {Undefined}, limit : {Undefined}]
    [] key = "top" ->
         [period : {"week"}, rankBy : {"magnitude"}, minMagnitude : {0, 45}, limit : {10}]
    [] key = "compare" -> CompareInputs \cup {TwinRegions}
    [] key = "report" -> ReportInputs
    [] key = "recent" -> [limit : {1, Undefined}]
    [] key = "significant" -> [limit : {Undefined}]
    [] key = "nearby" ->
         [latitude : {0}, longitude : {0}, radiusKm : {5000, 6000}, minMagnitude : {25}]
    [] key = "magnitude" ->
         [minMagnitude : {"2.5", "3.0"}, timeframe : {"undefined"}, limit : {25}]
    [] key = "regionalReport" -> [region : {"global", "europe", "undefined"}]

AnyRequest == \E key \in Keys : \E in \in Inputs(key) : Request(key, in)

AnyRespond == \E i \in Pending :
                \E r \in Responses(SmallBodies(op)) : Respond(i, r)

Next == AnyRequest \/ AnyRespond

Spec == Init /\ [][Next]_vars

\* ==================================================================== claims
Done(key) == op = key /\ pc = "done"

AllResponded200 == \A i \in DOMAIN fetches : fetches[i].httpStatus = 200

SomeResponseNotOk ==
  \E i \in DOMAIN fetches : fetches[i].httpStatus \notin {0, 200}

\* the score of the specification, from the three counts and the largest
\* magnitude within 50 km (in tenths)
SpecScore(count50, count250, count500, maxNearby) ==
  2 * count50
  + (IF count250 > 10 THEN 10 ELSE 0)
  + (IF maxNearby >= 40 THEN 15 ELSE 0)
  + (IF maxNearby >= 50 THEN 25 ELSE 0)
  + (IF count500 > 5 THEN 5 ELSE 0)

ReportCounts == <<fetches[1].body.count, fetches[2].body.count, fetches[3].body.count>>

\* C1 as stated: the score of the location report is the formula's value,
\* and the inputs (3, 12, 8, 5.2) give 66.
C1_ScoreWithExample66 ==
  Done("report") =>
    /\ output.score = SpecScore(ReportCounts[1], ReportCounts[2], ReportCounts[3],
                                output.within50km.maxMagnitude)
    /\ (ReportCounts = <<3, 12, 8>> /\ output.within50km.maxMagnitude = 52
          => output.score = 66)

\* C1, amended: the score of the location report is 2*nearby50kmCount
\* + (10 if nearby250kmCount > 10) + (15 if maxNearbyMagnitude >= 4)
\* + (25 if maxNearbyMagnitude >= 5) + (5 if nearby500kmCount > 5); the
\* inputs (3, 12, 8, 5.2) give 61.
C1_RiskScore ==
  Done("report") =>
    /\ output.score = SpecScore(ReportCounts[1], ReportCounts[2], ReportCounts[3],
                                output.within50km.maxMagnitude)
    /\ (ReportCounts = <<3, 12, 8>> /\ output.within50km.maxMagnitude = 52
          => output.score = 61)

C1_Witness ==
  /\ Done("report")
  /\ ReportCounts = <<3, 12, 8>>
  /\ output.within50km.maxMagnitude = 52
  /\ output.score = 61

\* C2: the risk level is one of low, moderate, elevated, high and the score
\* alone decides it: high iff score >= 50, elevated iff 25 <= score < 50,
\* moderate iff 10 <= score < 25, low iff score < 10; all-zero inputs give
\* score 0 and level low.
C2_RiskLevel ==
  Done("report") =>
    /\ output.level \in {"low", "moderate", "elevated", "high"}
    /\ (output.level = "high" <=> output.score >= 50)
    /\ (output.level = "elevated" <=> (25 <= output.score /\ output.score < 50))
    /\ (output.level = "moderate" <=> (10 <= output.score /\ output.score < 25))
    /\ (output.level = "low" <=> output.score < 10)
    /\ (ReportCounts = <<0, 0, 0>> /\ output.within50km.maxMagnitude = 0
          => output.score = 0 /\ output.level = "low")

C2_Witness ==
  /\ Done("report")
  /\ output.score = 25
  /\ output.level = "elevated"

\* C3: in an operation that fans out several concurrent fetches, once a
\* fetch of the batch got a response that is not a success the operation has
\* failed and has no output, whichever fetches responded before or after it.
C3_FanOutFailsWhole ==
  (op \in FanOutKeys /\ SomeResponseNotOk) =>
    pc = "failed" /\ error = "UpstreamError" /\ output = NoOutput

C3_Witness ==
  /\ op = "compare"
  /\ pc = "failed"
  /\ Len(fetches) >= 3
  /\ fetches[1].state = "fulfilled"
  /\ fetches[2].state = "rejected"
  /\ \E i \in DOMAIN fetches : fetches[i].state = "pending"
  /\ output = NoOutput

\* C4: a search whose radiusKm is outside [1, 20000], or a compare of fewer
\* than 2 or more than 5 regions, fails with a validation error and issues
\* no upstream fetch.
C4_InvalidInputFetchesNothing ==
  (\/ (op = "search" /\ input.radiusKm # Undefined
         /\ (input.radiusKm < 1000 \/ input.radiusKm > 20000000))
   \/ (op = "compare" /\ (Len(input.regions) < 2 \/ Len(input.regions) > 5)))
  => pc = "failed" /\ error = "ValidationError" /\ fetches = <<>> /\ output = NoOutput

C4_Witness ==
  /\ op = "search"
  /\ input.radiusKm = 25000000
  /\ error = "ValidationError"
  /\ fetches = <<>>

\* the entrypoints whose output is a list of records of one response
ListKeys == {"search", "top", "nearby", "recent", "significant", "magnitude"}

ResultList ==
  IF op = "top" THEN output.topEarthquakes ELSE output.earthquakes

\* the records of the response the operation is asked to return: those
\* within its magnitude or radius filter and within its limit
Selected ==
  LET features == fetches[1].body.features
  IN  CASE op = "search" -> DOMAIN features
        [] op = "top" ->
             {i \in DOMAIN features :
                features[i].mag # Null /\ features[i].mag >= input.minMagnitude}
        [] op = "nearby" ->
             {i \in DOMAIN features :
                haversineDistance(input.latitude, input.longitude,
                    features[i].coordinates[2], features[i].coordinates[1])
                  <= input.radiusKm}
        [] OTHER -> {i \in DOMAIN features : i <= input.limit}

\* C5 as stated: a response that is not a success makes the operation fail
\* without output, and an empty result is returned only when the response
\* succeeded and contains zero records.
C5_EmptyOnlyFromEmptyResponse ==
  /\ SomeResponseNotOk => pc = "failed" /\ output = NoOutput
  /\ (pc = "done" /\ op \in ListKeys /\ ResultList = <<>>) =>
       AllResponded200 /\ fetches[1].body.features = <<>>

\* C5, amended: a response that is not a success makes the operation fail
\* without output, and an empty result is returned only when the response
\* succeeded and none of its records is within the operation's own filter
\* and limit.
C5_ErrorsNeverMasked ==
  /\ SomeResponseNotOk => pc = "failed" /\ error = "UpstreamError" /\ output = NoOutput
  /\ (pc = "done" /\ op \in ListKeys /\ ResultList = <<>>) =>
       AllResponded200 /\ Selected = {}

C5_Witness ==
  /\ Done("nearby")
  /\ output.earthquakes = <<>>
  /\ output.found = 0
  /\ fetches[1].httpStatus = 200
  /\ fetches[1].body.features # <<>>

RankValue(q) == IF input.rankBy = "magnitude" THEN q.magnitude ELSE q.significance

\* C6: every record top returns has a magnitude >= minMagnitude, and every
\* feed record with a magnitude >= minMagnitude is kept up to the truncation
\* to limit.
C6_TopRespectsMinMagnitude ==
  Done("top") =>
    LET feed    == fetches[1].body.features
        matches == {i \in DOMAIN feed :
                      feed[i].mag # Null /\ feed[i].mag >= input.minMagnitude}
        top     == output.topEarthquakes
    IN  /\ \A i \in DOMAIN top :
             top[i].magnitude # Null /\ top[i].magnitude >= input.minMagnitude
        /\ output.totalFiltered = Cardinality(matches)
        /\ Len(top) = IF input.limit < Cardinality(matches)
                      THEN input.limit ELSE Cardinality(matches)

\* C7: the records top returns are in non-increasing order of the rankBy
\* field, and two records of equal rankBy value are in the order of the feed.
C7_TopSortedStable ==
  Done("top") =>
    LET top == output.topEarthquakes
    IN  \A i, j \in DOMAIN top :
          i < j =>
            /\ (RankValue(top[i]) # Null /\ RankValue(top[j]) # Null
                  => RankValue(top[i]) >= RankValue(top[j]))
            /\ (RankValue(top[i]) = RankValue(top[j]) => top[i].id < top[j].id)

C7_Witness ==
  /\ Done("top")
  /\ input.rankBy = "significance"
  /\ Len(output.topEarthquakes) = 2
  /\ output.totalFiltered = 3
  /\ output.topEarthquakes[1].significance = 10
  /\ output.topEarthquakes[2].significance = 10
  /\ output.topEarthquakes[1].id = 2
  /\ output.topEarthquakes[2].id = 3

DistanceOf(q) ==
  haversineDistance(input.latitude, input.longitude, q.latitude, q.longitude)

NearbySorted ==
  \A i, j \in DOMAIN output.earthquakes :
    i < j => output.earthquakes[i].distanceKm <= output.earthquakes[j].distanceKm

\* C8 as stated: the records nearby returns are in ascending order of
\* distanceKm and the distanceKm of each is <= radiusKm, whether radiusKm is
\* an integer or not.
C8_RoundedWithinRadius ==
  Done("nearby") =>
    /\ NearbySorted
    /\ \A i \in DOMAIN output.earthquakes :
         output.earthquakes[i].distanceKm * 1000 <= input.radiusKm

\* C8, amended: the records nearby returns are in ascending order of
\* distanceKm, the rounded Haversine distance; the unrounded distance of each
\* is <= radiusKm, so that its distanceKm is <= radiusKm rounded, and
\* <= radiusKm when radiusKm is an integer.
C8_NearbySortedWithinRadius ==
  Done("nearby") =>
    /\ NearbySorted
    /\ \A i \in DOMAIN output.earthquakes :
         LET q == output.earthquakes[i]
         IN  /\ DistanceOf(q) <= input.radiusKm
             /\ q.distanceKm = MathRoundKm(DistanceOf(q))
             /\ q.distanceKm <= MathRoundKm(input.radiusKm)
             /\ (input.radiusKm % 1000 = 0 => q.distanceKm * 1000 <= input.radiusKm)

C8_Witness ==
  /\ Done("nearby")
  /\ input.radiusKm = 5600
  /\ Len(fetches[1].body.features) = 3
  /\ Len(output.earthquakes) = 2
  /\ output.earthquakes[1].distanceKm = 4
  /\ output.earthquakes[2].distanceKm = 6
  /\ output.earthquakes[2].id < output.earthquakes[1].id

\* the total count the upstream reported for region i
TotalCount(i) == fetches[i].body.count

\* C9: the ranking of compare lists every region once, in non-increasing
\* order of total count; mostActive names a region of the largest total
\* count and leastActive a region of the smallest.
C9_CompareRanking ==
  Done("compare") =>
    LET n      == Len(input.regions)
        ranked == output.ranking.byTotalQuakes
    IN  /\ n >= 2 /\ n <= 5
        /\ Len(ranked) = n
        /\ \E perm \in [1..n -> 1..n] :
             /\ \A k, l \in 1..n : perm[k] = perm[l] => k = l
             /\ \A k \in 1..n :
                  ranked[k] = [region |-> input.regions[perm[k]].name,
                               count |-> TotalCount(perm[k])]
        /\ \A k, l \in 1..n : k < l => ranked[k].count >= ranked[l].count
        /\ \E i \in 1..n :
             /\ input.regions[i].name = output.ranking.mostActive
             /\ \A j \in 1..n : TotalCount(j) <= TotalCount(i)
        /\ \E i \in 1..n :
             /\ input.regions[i].name = output.ranking.leastActive
             /\ \A j \in 1..n : TotalCount(j) >= TotalCount(i)

C9_Witness ==
  /\ Done("compare")
  /\ Len(input.regions) = 4
  /\ [i \in 1..4 |-> TotalCount(i)] = <<3, 5, 3, 0>>
  /\ output.ranking.mostActive = "Lima"
  /\ output.ranking.leastActive = "Oslo"

RegionMagnitudes(i) ==
  [k \in DOMAIN fetches[i].body.features |-> fetches[i].body.features[k].mag]

RegionMaxIsMaximum(i) ==
  LET mags == RegionMagnitudes(i)
      max  == output.comparison[i].stats.maxMagnitude
  IN  (\E k \in DOMAIN mags : mags[k] = max) /\ (\A k \in DOMAIN mags : mags[k] <= max)

EmptyRegionIsZero(i) ==
  LET entry == output.comparison[i]
  IN  /\ entry.stats.averageMagnitude = 0
      /\ entry.stats.maxMagnitude = 0
      /\ entry.topQuake = NullValue

\* C10 as stated: a region of compare without records has averageMagnitude 0,
\* maxMagnitude 0 and a null topQuake; for a region with records
\* averageMagnitude is the mean of their magnitudes and maxMagnitude their
\* maximum.  (averageMagnitude is in hundredths, the magnitudes in tenths.)
C10_AverageIsExactMean ==
  Done("compare") =>
    \A i \in DOMAIN output.comparison :
      LET mags == RegionMagnitudes(i)
      IN  IF mags = <<>> THEN EmptyRegionIsZero(i)
          ELSE /\ output.comparison[i].stats.averageMagnitude * Len(mags)
                    = 10 * SumSeq(mags)
               /\ RegionMaxIsMaximum(i)

\* C10, amended: a region of compare without records has averageMagnitude 0,
\* maxMagnitude 0 and a null topQuake; for a region with records
\* averageMagnitude is the mean of their magnitudes rounded to two decimals
\* (it is within 0.005 of the mean) and maxMagnitude their maximum.
C10_CompareStats ==
  Done("compare") =>
    \A i \in DOMAIN output.comparison :
      LET mags == RegionMagnitudes(i)
          avg  == output.comparison[i].stats.averageMagnitude
          off  == avg * Len(mags) - 10 * SumSeq(mags)
      IN  IF mags = <<>> THEN EmptyRegionIsZero(i)
          ELSE /\ 2 * off <= Len(mags)
               /\ 2 * off > -Len(mags)
               /\ RegionMaxIsMaximum(i)

C10_Witness ==
  /\ Done("compare")
  /\ RegionMagnitudes(1) = <<10, 10, 11>>
  /\ output.comparison[1].stats.averageMagnitude = 103
  /\ output.comparison[1].stats.maxMagnitude = 11
  /\ RegionMagnitudes(2) = <<>>
  /\ output.comparison[2].stats.averageMagnitude = 0
  /\ output.comparison[2].topQuake = NullValue

\* ---------------------------------------------------------- regional report
\* epicentres <<lon, lat>> on, inside and outside the edges of the four boxes
RegionPoints ==
  {<<17000, 0>>, <<-17000, 0>>, <<0, 0>>, <<10000, 6000>>, <<-10000, -6000>>,
   <<9999, 0>>, <<17000, 6001>>, <<4500, 3500>>, <<4501, 7200>>, <<-3000, 7000>>}

RegionKinds == {Kind(30, 10, <<"Fiji">>, p[1], p[2]) : p \in RegionPoints}

\* the hour, day and month feeds: one record west of the dateline, one on
\* the Greenwich meridian
SideFeed ==
  Body(2, Features(<<Kind(30, 10, <<"Fiji">>, -17000, 0), Kind(30, 10, <<"Ghana">>, 0, 0)>>))

RegionBodies(i) ==
  IF i = 3 THEN Feeds(RegionKinds, MaxRegionLen) ELSE {SideFeed}

RegionInputs ==
  [region : {"global", "pacific", "americas", "asia", "europe", "undefined", "africa"}]

RegionRequest == \E in \in RegionInputs : Request("regionalReport", in)

RegionRespond == \E i \in Pending :
                   \E r \in Responses(RegionBodies(i)) : Respond(i, r)

NextRegion == RegionRequest \/ RegionRespond

SpecRegion == Init /\ [][NextRegion]_vars

\* the boxes of the named regions, in hundredths of a degree
SpecBox(region) ==
  CASE region = "pacific"  -> [latMin |-> -6000, latMax |-> 6000, lonMin |-> 10000, lonMax |-> -10000]
    [] region = "americas" -> [latMin |-> -6000, latMax |-> 7000, lonMin |-> -17000, lonMax |-> -3000]
    [] region = "asia"     -> [latMin |-> -1000, latMax |-> 6000, lonMin |-> 6000, lonMax |-> 15000]
    [] region = "europe"   -> [latMin |-> 3500, latMax |-> 7200, lonMin |-> -2500, lonMax |-> 4500]

\* membership of a point in a box that may cross the antimeridian
InBoundingBox(lat, lon, box) ==
  /\ box.latMin <= lat /\ lat <= box.latMax
  /\ IF box.lonMin > box.lonMax
     THEN lon >= box.lonMin \/ lon <= box.lonMax
     ELSE box.lonMin <= lon /\ lon <= box.lonMax

\* the ids of the records of a feed the report of the region must keep
KeptIds(features, region) ==
  LET kept(f) == region = "global"
                 \/ InBoundingBox(f.coordinates[2], f.coordinates[1], SpecBox(region))
      id(f)   == f.id
  IN  map(filter(features, kept), id)

IdsOf(quakes) == [k \in DOMAIN quakes |-> quakes[k].id]

\* C11: the regional report of a named region keeps a record iff its
\* latitude is within [latMin, latMax] and its longitude is in the box,
\* which for a box with lonMin > lonMax (pacific) means lon >= lonMin or
\* lon <= lonMax; global keeps every record.  The records kept show in
\* recentSignificant (feeds of up to five records) and in the four counts.
C11_RegionMembership ==
  Done("regionalReport") =>
    /\ IdsOf(output.recentSignificant) = KeptIds(fetches[3].body.features, input.region)
    /\ IdsOf(output.latestLarge) = KeptIds(fetches[2].body.features, input.region)
    /\ output.pastHour = Len(KeptIds(fetches[1].body.features, input.region))
    /\ output.magnitude45_24h = Len(KeptIds(fetches[2].body.features, input.region))
    /\ output.significantWeek = Len(KeptIds(fetches[3].body.features, input.region))
    /\ output.totalMonth = Len(KeptIds(fetches[4].body.features, input.region))

\* the pacific report accepts longitude -170 and 170 and rejects longitude 0
C11_Witness ==
  /\ Done("regionalReport")
  /\ input.region = "pacific"
  /\ Len(fetches[3].body.features) = 2
  /\ fetches[3].body.features[1].coordinates[1] = 0
  /\ fetches[3].body.features[2].coordinates[1] = 17000
  /\ IdsOf(output.recentSignificant) = <<2>>
  /\ output.pastHour = 1
  /\ fetches[1].body.features[1].coordinates[1] = -17000

\* ------------------------------------------------------ the feed of nearby
\* the magnitude floors of the day feeds, in tenths
Floors == {45, 25, 10}

FeedWithFloor(floor) ==
  CASE floor = 45 -> FeedUrl("4.5_day.geojson")
    [] floor = 25 -> FeedUrl("2.5_day.geojson")
    [] floor = 10 -> FeedUrl("1.0_day.geojson")

\* the coarsest of the qualifying feeds (the one of the largest floor), and
\* the finest-grained feed when none qualifies
CoarsestOrFinest(qualifying) ==
  IF qualifying = {} THEN FeedWithFloor(10)
  ELSE FeedWithFloor(CHOOSE f \in qualifying : \A g \in qualifying : g <= f)

NearbyFetched == op = "nearby" /\ pc # "idle" /\ error # "ValidationError"

\* C12 as stated: nearby fetches the coarsest day feed whose magnitude floor
\* is >= minMagnitude, and the feed of floor 1.0 when no feed qualifies.
C12_FeedFloorAtLeast ==
  NearbyFetched =>
    /\ Len(fetches) = 1
    /\ fetches[1].url = CoarsestOrFinest({f \in Floors : f >= input.minMagnitude})

\* C12, amended: nearby fetches exactly one feed, the coarsest day feed
\* whose magnitude floor is <= minMagnitude, and the feed of floor 1.0 when
\* no feed qualifies (minMagnitude below 1.0).
C12_FeedFloorAtMost ==
  NearbyFetched =>
    /\ Len(fetches) = 1
    /\ fetches[1].url = CoarsestOrFinest({f \in Floors : f <= input.minMagnitude})

\* nearby with minMagnitude 3.0 answered from the feed of floor 2.5
C12_Witness ==
  /\ Done("nearby")
  /\ input.minMagnitude = 30
  /\ fetches[1].url = FeedUrl("2.5_day.geojson")
  /\ output.minMagnitude = 30
  /\ output.found > 0

\* ------------------------------------------------------- most active areas
\* places of the month feed: two of Alaska, areas named by digits, a null
\* and an empty place, and a record outside the pacific box
AreaKinds ==
  {Kind(30, 10, p, 17000, 0) :
     p \in {<<"Alaska">>, <<"5km S of Nome", "Alaska">>, <<"Fiji">>, <<"7">>,
            <<"12">>, <<>>, <<"">>}}
  \cup {Kind(30, 10, <<"Ghana">>, 0, 0)}

\* four records of four areas, two of them of Tonga
LongFeed ==
  <<Kind(30, 10, <<"Tonga">>, 17000, 0), Kind(30, 10, <<"Samoa">>, 17000, 0),
    Kind(30, 10, <<"Japan">>, 14000, 3500), Kind(30, 10, <<"Guam">>, 14500, 1300),
    Kind(30, 10, <<"Nuku'alofa", "Tonga">>, 17000, 0)>>

\* the month feed: up to MaxAreaLen records, alone or after the long feed
AreaBodies(i) ==
  IF i = 4
  THEN {Body(Len(pre \o ks), Features(pre \o ks)) :
          pre \in {<<>>, LongFeed}, ks \in SeqsUpTo(AreaKinds, MaxAreaLen)}
  ELSE {SideFeed}

AreaInputs == [region : {"global", "pacific"}]

AreaRequest == \E in \in AreaInputs : Request("regionalReport", in)

AreaRespond == \E i \in Pending :
                 \E r \in Responses(AreaBodies(i)) : Respond(i, r)

NextArea == AreaRequest \/ AreaRespond

SpecArea == Init /\ [][NextArea]_vars

\* the records of the month feed in the region that have a place
PlacedRecords ==
  LET kept(f) == /\ f.place # <<>> /\ f.place # <<"">>
                 /\ \/ input.region = "global"
                    \/ InBoundingBox(f.coordinates[2], f.coordinates[1],
                                     SpecBox(input.region))
  IN  filter(fetches[4].body.features, kept)

\* the trailing comma-separated component of a place
TrailingComponent(p) == <<p[Len(p)]>>

AreasSeen == {TrailingComponent(PlacedRecords[k].place) : k \in DOMAIN PlacedRecords}

Occurrences(area) ==
  Cardinality({k \in DOMAIN PlacedRecords :
                 TrailingComponent(PlacedRecords[k].place) = area})

FirstSeen(area) ==
  CHOOSE k \in DOMAIN PlacedRecords :
    /\ TrailingComponent(PlacedRecords[k].place) = area
    /\ \A l \in 1..(k - 1) : TrailingComponent(PlacedRecords[l].place) # area

\* area a ranks before area b: more occurrences, or as many and seen first
RanksBefore(a, b) ==
  \/ Occurrences(a) > Occurrences(b)
  \/ Occurrences(a) = Occurrences(b) /\ FirstSeen(a) < FirstSeen(b)

MostActiveAsSpecified ==
  LET most == output.mostActiveAreas
  IN  /\ Len(most) <= 5
      /\ Len(most) = IF Cardinality(AreasSeen) < 5 THEN Cardinality(AreasSeen) ELSE 5
      /\ \A k \in DOMAIN most :
           /\ most[k].area \in AreasSeen
           /\ most[k].count = Occurrences(most[k].area)
      /\ \A k, l \in DOMAIN most : k < l => RanksBefore(most[k].area, most[l].area)
      /\ \A a \in AreasSeen :
           (\A k \in DOMAIN most : most[k].area # a) =>
             \A k \in DOMAIN most : RanksBefore(most[k].area, a)

\* C13: mostActiveAreas of the regional report has at most 5 entries, each
\* the trailing comma-separated component of a place with its number of
\* occurrences over the month feed filtered to the region, in order of
\* count descending, and of areas with equal counts the one seen first in
\* the feed comes first; area names made of digits included.
C13_MostActiveFirstSeen ==
  Done("regionalReport") => MostActiveAsSpecified

\* ----------------------------------------------------------------- no retry
\* the request passed its schema and its handler ran
HandlerRan == pc # "idle" /\ error # "ValidationError"

\* the handler issued each of its fetches once
IssuedOnce ==
  HandlerRan =>
    /\ Len(fetches) = Len(Urls(op, input))
    /\ \A i \in DOMAIN fetches : fetches[i].url = Urls(op, input)[i]

\* a fetch whose response was not ok is over, and so is the request
FailedFetchFailsRequest ==
  \A i \in DOMAIN fetches :
    fetches[i].httpStatus \notin {0, 200} =>
      /\ fetches[i].state = "rejected"
      /\ pc = "failed"
      /\ error = "UpstreamError"
      /\ output = NoOutput

\* no fetch is issued after the handler's batch, a fetch that got its
\* response gets no other, and a failed request stays failed
NoSecondAttempt ==
  HandlerRan =>
    /\ Len(fetches') = Len(fetches)
    /\ \A i \in DOMAIN fetches :
         /\ fetches'[i].url = fetches[i].url
         /\ fetches[i].state # "pending" => fetches'[i] = fetches[i]
    /\ pc = "failed" => pc' = "failed" /\ output' = NoOutput

C15_JoinBeforeOutput ==
  op \in FanOutKeys =>
    /\ HandlerRan =>
         /\ Len(fetches) = Len(Urls(op, input))
         /\ Len(fetches) >= 2
    /\ output # NoOutput =>
         /\ pc = "done"
         /\ \A i \in DOMAIN fetches :
              fetches[i].state = "fulfilled" /\ fetches[i].httpStatus = 200
    /\ pc = "done" => output # NoOutput
    /\ Pending # {} => output = NoOutput /\ pc # "done"

\* a regional report with three feeds in and the fourth still awaited
C15_Witness ==
  /\ op = "regionalReport"
  /\ pc = "awaiting"
  /\ Len(fetches) = 4
  /\ Pending = {2}
  /\ \A i \in {1, 3, 4} : fetches[i].state = "fulfilled"
  /\ output = NoOutput

\* ------------------------------------- compare: the order of the responses
\* two to four regions, each answered with its own feed of M3.0 and M5.1
\* records, the responses in any order
OrderKinds == {Kind(m, 10, <<"Alaska">>, 0, 0) : m \in {30, 51}}

OrderInputs ==
  {[regions |-> [i \in 1..n |-> Region(i)], minMagnitude |-> 25] : n \in 2..4}

OrderRequest == \E in \in OrderInputs : Request("compare", in)

OrderRespond == \E i \in Pending :
                  \E r \in Responses(Feeds(OrderKinds, MaxOrderLen)) : Respond(i, r)

NextOrder == OrderRequest \/ OrderRespond

SpecOrder == Init /\ [][NextOrder]_vars

\* entry i of the comparison is region i of the input with the statistics
\* of the response to the fetch of region i
EntryFromOwnResponse(i) ==
  LET entry == output.comparison[i]
      mags  == RegionMagnitudes(i)
      off   == entry.stats.averageMagnitude * Len(mags) - 10 * SumSeq(mags)
  IN  /\ entry.region = input.regions[i].name
      /\ entry.latitude = input.regions[i].latitude
      /\ entry.longitude = input.regions[i].longitude
      /\ entry.stats.totalQuakes = TotalCount(i)
      /\ entry.stats.quakesAbove4 = Cardinality({k \in DOMAIN mags : mags[k] >= 40})
      /\ entry.stats.quakesAbove5 = Cardinality({k \in DOMAIN mags : mags[k] >= 50})
      /\ IF mags = <<>> THEN EmptyRegionIsZero(i)
         ELSE /\ 2 * off <= Len(mags) /\ 2 * off > -Len(mags)
              /\ RegionMaxIsMaximum(i)
              /\ entry.topQuake.magnitude = entry.stats.maxMagnitude

\* C16: the output of a successful compare does not depend on the order in
\* which the fetches of the regions complete: the comparison has one entry
\* per input region in input order, each with the statistics of that
\* region's own response, and the ranking is by total count descending with
\* regions of equal counts in input order, mostActive its first and
\* leastActive its last region (the first and the last input region when
\* all counts are equal).
C16_CompareOrderIndependent ==
  Done("compare") =>
    LET n      == Len(input.regions)
        ranked == output.ranking.byTotalQuakes
    IN  /\ Len(output.comparison) = n
        /\ \A i \in 1..n : EntryFromOwnResponse(i)
        /\ Len(ranked) = n
        /\ \E perm \in [1..n -> 1..n] :
             /\ \A k, l \in 1..n : perm[k] = perm[l] => k = l
             /\ \A k \in 1..n :
                  ranked[k] = [region |-> input.regions[perm[k]].name,
                               count |-> TotalCount(perm[k])]
             /\ \A k, l \in 1..n :
                  k < l => \/ TotalCount(perm[k]) > TotalCount(perm[l])
                           \/ /\ TotalCount(perm[k]) = TotalCount(perm[l])
                              /\ perm[k] < perm[l]
             /\ output.ranking.mostActive = input.regions[perm[1]].name
             /\ output.ranking.leastActive = input.regions[perm[n]].name
        /\ (\A i \in 1..n : TotalCount(i) = TotalCount(1)) =>
             /\ output.ranking.mostActive = input.regions[1].name
             /\ output.ranking.leastActive = input.regions[n].name

\* three regions of one record each, the second region's of M5.1: a full
\* tie, ranked in input order, each entry with its own magnitude
C16_Witness ==
  /\ Done("compare")
  /\ Len(input.regions) = 3
  /\ [i \in 1..3 |-> RegionMagnitudes(i)] = <<<<30>>, <<51>>, <<30>>>>
  /\ [i \in 1..3 |-> output.comparison[i].stats.maxMagnitude] = <<30, 51, 30>>
  /\ output.ranking.mostActive = "Tokyo"
  /\ output.ranking.leastActive = "Rome"

====
